---- MODULE Spec2Model ----
(***************************************************************************)
(* Synchronisation of transactions between the Notion-backed and the       *)
(* SQLite-backed repository (src/application/services/sync_service.py),    *)
(* with the two repository adapters as they are wired in src/container.py. *)
(*                                                                         *)
(* A transaction is modelled by its id, its description (standing for the  *)
(* scalar fields _needs_update compares and both adapters store and read   *)
(* back), its list of tags and its updated_at.  A datetime is a pair: the  *)
(* instant t and                                                           *)
(* whether the value is timezone-aware.  Python compares an aware and a    *)
(* naive datetime as unequal and raises TypeError when they are ordered.   *)
(*                                                                         *)
(* The SQLite adapter reads transaction.summary and passes summary= to the *)
(* Transaction constructor (sqlite_repository.py lines 151, 295, 506), a   *)
(* field the dataclass in domain/entities/transaction.py does not declare. *)
(* The model takes the entity with that optional field, as its users do:   *)
(* summary is stored and read back and plays no part in the sync.          *)
(***************************************************************************)
EXTENDS Integers, Sequences, FiniteSets, TLC

VARIABLES
    notion,               \* Notion database: transaction id -> page
    sqlite,               \* SQLite table: transaction id -> row
    now,                  \* wall clock (datetime.now(), Notion server time)
    pc,                   \* position of SyncService.sync
    options,              \* SyncOptions of the running / last sync
    direction,            \* direction of the running unidirectional pass
    source_transactions,  \* source transactions still to be processed
    target_map,           \* snapshot of target.list() keyed by id
    result,               \* SyncResult the running pass accumulates into
    result_n2s,           \* SyncResult of the first pass of a bidirectional sync
    faults,               \* repository faults the environment may still inject
    runs,                 \* number of sync() calls started
    calls,                \* add/update calls made by the running / last sync
    event,                \* what the last loop iteration (or list()) did
    pre,                  \* repository contents when the running / last sync started
    last,                 \* outcome of the last sync() call that ended
    prev,                 \* outcome of the sync() call that ended before it
    status,               \* outcome of the last get_sync_status() call
    removed,              \* repository a transaction was deleted from since
    other_write,          \* write of another writer during the running sync
    gen,                  \* the running / last generate() call of the LLM client
    cat,                  \* the running / last CategorizationService call
    val,                  \* the last _validate_category call
    entity                \* a Transaction entity held by a caller

vars == <<notion, sqlite, now, pc, options, direction, source_transactions,
          target_map, result, result_n2s, faults, runs, calls, event, pre,
          last, prev, status, removed, other_write, gen, cat, val, entity>>

\* the state of the sync engine and its two repositories
syncVars == <<notion, sqlite, now, pc, options, direction, source_transactions,
              target_map, result, result_n2s, faults, runs, calls, event, pre,
              last, prev, status, removed, other_write>>

----------------------------------------------------------------------------
(* Bounds and domains *)

TxnIds == {1, 2}
Descriptions == {"d1", "d2"}

\* updated_at values of the transactions stored initially: two instants let
\* either side of a pair be older than, as old as, or newer than the other
InitTimes == {1, 2}

\* value of the clock in the initial state: the latest initial timestamp
StartTime == CHOOSE t \in InitTimes : \A u \in InitTimes : u <= t

MaxTime == 3        \* the clock stops advancing here
MaxFaults == 1      \* faults of add/update/list the environment injects
MaxReruns == 1      \* repetitions of the first sync per behaviour of SpecRepeat
MaxSyncs == 4       \* syncs per behaviour of SpecBidirectional

NoTime == 0         \* SyncOptions.last_sync_time = None

NOTION_TO_SQLITE == "notion_to_sqlite"
SQLITE_TO_NOTION == "sqlite_to_notion"
BIDIRECTIONAL == "bidirectional"
SyncDirection == {NOTION_TO_SQLITE, SQLITE_TO_NOTION, BIDIRECTIONAL}

SOURCE_WINS == "source_wins"
TARGET_WINS == "target_wins"
NEWEST_WINS == "newest_wins"
SKIP == "skip"
ConflictResolution == {SOURCE_WINS, TARGET_WINS, NEWEST_WINS, SKIP}

FULL == "full"
INCREMENTAL == "incremental"
SyncMode == {FULL, INCREMENTAL}

----------------------------------------------------------------------------
(* datetime *)

DateTime(t, aware) == [t |-> t, aware |-> aware]

\* a != b on datetimes: an aware and a naive value are never equal
DtNotEqual(a, b) == a.aware # b.aware \/ a.t # b.t

\* a > b, a >= b raise TypeError when exactly one side is aware
DtComparable(a, b) == a.aware = b.aware
DtGreater(a, b) == a.t > b.t
DtGreaterEq(a, b) == a.t >= b.t

----------------------------------------------------------------------------
(* SyncResult *)

NewSyncResult ==
    [created_in_target |-> 0, updated_in_target |-> 0, skipped |-> 0,
     conflicts_resolved |-> 0, errors |-> 0, total_processed |-> 0]

SyncOptions(dir, strategy, mode, since, dry) ==
    [direction |-> dir, conflict_resolution |-> strategy, mode |-> mode,
     last_sync_time |-> since, dry_run |-> dry]

----------------------------------------------------------------------------
(* Repository adapters *)

\* list() returns the transactions ordered by date; the id stands for the date
RECURSIVE IdSeq(_)
IdSeq(S) ==
    IF S = {} THEN <<>>
    ELSE LET m == CHOOSE x \in S : \A y \in S : x <= y
         IN <<m>> \o IdSeq(S \ {m})

\* Notion: updated_at is the page's last_edited_time (always aware, "+00:00")
NotionPageToTransaction(id, page) ==
    [id |-> id, description |-> page.description, tags |-> page.tags,
     updated_at |-> DateTime(page.last_edited_time, TRUE)]

NotionList(db) ==
    LET ids == IdSeq(DOMAIN db)
    IN [i \in 1..Len(ids) |-> NotionPageToTransaction(ids[i], db[ids[i]])]

\* the properties sent to Notion carry no timestamp: Notion stamps the page;
\* the Tags property is sent only when the transaction has tags
TransactionToNotionProperties(txn, clock, old_tags) ==
    [description |-> txn.description,
     tags |-> IF txn.tags # <<>> THEN txn.tags ELSE old_tags,
     last_edited_time |-> clock]

\* pages.create
NotionAdd(db, txn, clock) ==
    (txn.id :> TransactionToNotionProperties(txn, clock, <<>>)) @@ db

\* pages.update of the page found by _get_notion_page_by_uuid
NotionUpdate(db, txn, clock) ==
    [db EXCEPT ![txn.id] =
        TransactionToNotionProperties(txn, clock, db[txn.id].tags)]

RowToTransaction(id, row) ==
    [id |-> id, description |-> row.description, tags |-> row.tags,
     updated_at |-> row.updated_at]

SQLiteList(db) ==
    LET ids == IdSeq(DOMAIN db)
    IN [i \in 1..Len(ids) |-> RowToTransaction(ids[i], db[ids[i]])]

\* INSERT stores transaction.updated_at.isoformat()
SQLiteAdd(db, txn) ==
    (txn.id :> [description |-> txn.description, tags |-> txn.tags,
                updated_at |-> txn.updated_at]) @@ db

\* UPDATE that stamps the row and leaves its data as it was
SQLiteUpdateStampOnly(db, txn, clock) ==
    [db EXCEPT ![txn.id].updated_at = DateTime(clock, FALSE)]

\* UPDATE stores datetime.now().isoformat(), a naive datetime
SQLiteUpdate(db, txn, clock) ==
    [db EXCEPT ![txn.id] = [description |-> txn.description,
                            tags |-> txn.tags,
                            updated_at |-> DateTime(clock, FALSE)]]

SourceOf(dir) == IF dir = NOTION_TO_SQLITE THEN "notion" ELSE "sqlite"
TargetOf(dir) == IF dir = NOTION_TO_SQLITE THEN "sqlite" ELSE "notion"

RepoList(repo) == IF repo = "notion" THEN NotionList(notion) ELSE SQLiteList(sqlite)
RepoIds(repo) == IF repo = "notion" THEN DOMAIN notion ELSE DOMAIN sqlite

\* add raises for an id the SQLite table already holds (PRIMARY KEY);
\* Notion does not enforce uniqueness
AddRaises(repo, txn) == repo = "sqlite" /\ txn.id \in DOMAIN sqlite

\* update raises TransactionNotFoundError for an id the repository lacks
UpdateRaises(repo, txn) == txn.id \notin RepoIds(repo)

----------------------------------------------------------------------------
(* SyncService *)

NeedsUpdate(source, target) ==
    \/ DtNotEqual(source.updated_at, target.updated_at)
    \/ source.description # target.description
    \/ source.tags # target.tags

\* NEWEST_WINS orders the two updated_at values, which raises TypeError
\* when exactly one of them is aware
ResolveConflictRaises(source_txn, target_txn, strategy) ==
    strategy = NEWEST_WINS
    /\ ~DtComparable(source_txn.updated_at, target_txn.updated_at)

\* ResolveConflict with >= in place of the > of line 280
ResolveConflictNewestOrEqual(source_txn, target_txn, strategy) ==
    CASE strategy = SOURCE_WINS -> TRUE
      [] strategy = TARGET_WINS -> FALSE
      [] strategy = SKIP -> FALSE
      [] strategy = NEWEST_WINS ->
            DtGreaterEq(source_txn.updated_at, target_txn.updated_at)
      [] OTHER -> FALSE

\* ResolveConflict whose SOURCE_WINS branch compares the timestamps
ResolveConflictSourceIfNewer(source_txn, target_txn, strategy) ==
    CASE strategy = SOURCE_WINS ->
            DtGreater(source_txn.updated_at, target_txn.updated_at)
      [] strategy = TARGET_WINS -> FALSE
      [] strategy = SKIP -> FALSE
      [] strategy = NEWEST_WINS ->
            DtGreater(source_txn.updated_at, target_txn.updated_at)
      [] OTHER -> FALSE

ResolveConflict(source_txn, target_txn, strategy) ==
    CASE strategy = SOURCE_WINS -> TRUE
      [] strategy = TARGET_WINS -> FALSE
      [] strategy = SKIP -> FALSE
      [] strategy = NEWEST_WINS ->
            DtGreater(source_txn.updated_at, target_txn.updated_at)
      [] OTHER -> FALSE

\* Decision that reads the target again: it compares source_txn with the
\* transaction the target repository holds now, not with the one listed
DecisionOnCurrentTarget(source_txn, tmap, strategy) ==
    LET targets == RepoList(TargetOf(direction))
        current == [id \in {targets[i].id : i \in 1..Len(targets)} |->
                      CHOOSE t \in {targets[i] : i \in 1..Len(targets)} : t.id = id]
    IN IF source_txn.id \notin DOMAIN current THEN "create"
       ELSE IF ~NeedsUpdate(source_txn, current[source_txn.id]) THEN "in_sync"
       ELSE IF (strategy = NEWEST_WINS
                /\ ~DtComparable(source_txn.updated_at,
                                 current[source_txn.id].updated_at))
            THEN "error"
       ELSE IF ResolveConflict(source_txn, current[source_txn.id], strategy)
            THEN "update"
       ELSE "skip"

\* Decision that overwrites every transaction the target already holds
DecisionOverwrites(source_txn, tmap, strategy) ==
    IF source_txn.id \notin DOMAIN tmap THEN "create" ELSE "update"

\* Decision that consults the policy before creating a missing transaction
DecisionPolicyBeforeCreate(source_txn, tmap, strategy) ==
    IF source_txn.id \notin DOMAIN tmap
    THEN IF strategy \in {SKIP, TARGET_WINS} THEN "skip" ELSE "create"
    ELSE IF ~NeedsUpdate(source_txn, tmap[source_txn.id]) THEN "in_sync"
    ELSE IF ResolveConflictRaises(source_txn, tmap[source_txn.id], strategy)
         THEN "error"
    ELSE IF ResolveConflict(source_txn, tmap[source_txn.id], strategy)
         THEN "update"
    ELSE "skip"

\* the branch one loop iteration takes for source_txn, before any repository call
Decision(source_txn, tmap, strategy) ==
    IF source_txn.id \notin DOMAIN tmap THEN "create"
    ELSE IF ~NeedsUpdate(source_txn, tmap[source_txn.id]) THEN "in_sync"
    ELSE IF ResolveConflictRaises(source_txn, tmap[source_txn.id], strategy)
         THEN "error"
    ELSE IF ResolveConflict(source_txn, tmap[source_txn.id], strategy)
         THEN "update"
    ELSE "skip"

\* CallsTarget without the dry_run guards of lines 183 and 200
CallsTargetInDryRun(source_txn, tmap, opts) ==
    Decision(source_txn, tmap, opts.conflict_resolution) \in {"create", "update"}

\* the iteration calls target.add or target.update
CallsTarget(source_txn, tmap, opts) ==
    /\ ~opts.dry_run
    /\ Decision(source_txn, tmap, opts.conflict_resolution) \in {"create", "update"}

Bump(res, field) == [res EXCEPT ![field] = @ + 1]

\* IterationResult that leaves conflicts_resolved alone on an update
IterationResultUpdateOnly(res, decision, raised) ==
    LET counted == Bump(res, "total_processed")
    IN IF raised \/ decision = "error" THEN Bump(counted, "errors")
       ELSE IF decision = "create" THEN Bump(counted, "created_in_target")
       ELSE IF decision = "update" THEN Bump(counted, "updated_in_target")
       ELSE IF decision = "skip" THEN Bump(counted, "skipped")
       ELSE counted

\* IterationResult that counts the creation or update before the call returns
IterationResultCountsBeforeCall(res, decision, raised) ==
    LET counted == Bump(res, "total_processed")
        failed == IF raised \/ decision = "error"
                  THEN Bump(counted, "errors") ELSE counted
    IN IF decision = "create" THEN Bump(failed, "created_in_target")
       ELSE IF decision = "update"
            THEN Bump(Bump(failed, "updated_in_target"), "conflicts_resolved")
       ELSE IF decision = "skip" THEN Bump(failed, "skipped")
       ELSE failed

\* SyncResult after one loop iteration; raised: the repository call (or the
\* comparison of the timestamps) raised inside the try block
IterationResult(res, decision, raised) ==
    LET counted == Bump(res, "total_processed")
    IN IF raised \/ decision = "error" THEN Bump(counted, "errors")
       ELSE IF decision = "create" THEN Bump(counted, "created_in_target")
       ELSE IF decision = "update"
            THEN Bump(Bump(counted, "updated_in_target"), "conflicts_resolved")
       ELSE IF decision = "skip" THEN Bump(counted, "skipped")
       ELSE counted

Outcome(decision, raised) ==
    IF raised \/ decision = "error" THEN "error"
    ELSE IF decision = "create" THEN "created"
    ELSE IF decision = "update" THEN "updated"
    ELSE IF decision = "skip" THEN "skipped"
    ELSE "in_sync"

\* incremental mode keeps t.updated_at >= options.last_sync_time
IsIncremental(opts) == opts.mode = INCREMENTAL /\ opts.last_sync_time.t # NoTime

IncrementalFilterRaises(txns, opts) ==
    \E i \in 1..Len(txns) : ~DtComparable(txns[i].updated_at, opts.last_sync_time)

IncrementalFilter(txns, opts) ==
    SelectSeq(txns, LAMBDA t : DtGreaterEq(t.updated_at, opts.last_sync_time))

\* MergeResults that keeps the counters of the second pass only
MergeResultsSecondPassOnly(a, b) == b

MergeResults(a, b) ==
    [f \in DOMAIN NewSyncResult |-> a[f] + b[f]]

NoEvent == [id |-> 0, decision |-> "none", outcome |-> "none"]
NoCalls == [notion |-> 0, sqlite |-> 0]
NoOutcome ==
    [status |-> "none", options |-> SyncOptions(BIDIRECTIONAL, NEWEST_WINS, FULL,
                                                 DateTime(NoTime, FALSE), FALSE),
     result |-> NewSyncResult, calls |-> NoCalls]

NoReport ==
    [notion_count |-> 0, sqlite_count |-> 0, only_in_notion |-> 0,
     only_in_sqlite |-> 0, out_of_sync |-> 0, in_sync |-> FALSE]

NoWrite == [id |-> 0, repo |-> "none", description |-> "", t |-> 0]

NoStatus == [outcome |-> "none", report |-> NoReport, prior |-> NoReport,
             removed |-> "none"]

\* SyncStatus that derives in_sync from out_of_sync alone
SyncStatusFromOutOfSync(notion_txns, sqlite_txns) ==
    LET notion_ids == {notion_txns[i].id : i \in 1..Len(notion_txns)}
        sqlite_ids == {sqlite_txns[i].id : i \in 1..Len(sqlite_txns)}
        ById(txns, id) == CHOOSE t \in {txns[i] : i \in 1..Len(txns)} : t.id = id
        out_of_sync ==
            Cardinality({id \in notion_ids \cap sqlite_ids :
                            NeedsUpdate(ById(notion_txns, id), ById(sqlite_txns, id))})
    IN [notion_count |-> Len(notion_txns),
        sqlite_count |-> Len(sqlite_txns),
        only_in_notion |-> Cardinality(notion_ids \ sqlite_ids),
        only_in_sqlite |-> Cardinality(sqlite_ids \ notion_ids),
        out_of_sync |-> out_of_sync,
        in_sync |-> out_of_sync = 0]

\* SyncStatus that derives in_sync from the counts and out_of_sync, not
\* from the ids missing on either side
SyncStatusIgnoringMissing(notion_txns, sqlite_txns) ==
    LET notion_ids == {notion_txns[i].id : i \in 1..Len(notion_txns)}
        sqlite_ids == {sqlite_txns[i].id : i \in 1..Len(sqlite_txns)}
        ById(txns, id) == CHOOSE t \in {txns[i] : i \in 1..Len(txns)} : t.id = id
        out_of_sync ==
            Cardinality({id \in notion_ids \cap sqlite_ids :
                            NeedsUpdate(ById(notion_txns, id), ById(sqlite_txns, id))})
    IN [notion_count |-> Len(notion_txns),
        sqlite_count |-> Len(sqlite_txns),
        only_in_notion |-> Cardinality(notion_ids \ sqlite_ids),
        only_in_sqlite |-> Cardinality(sqlite_ids \ notion_ids),
        out_of_sync |-> out_of_sync,
        in_sync |-> Len(notion_txns) = Len(sqlite_txns) /\ out_of_sync = 0]

\* the dictionary get_sync_status builds from the two listings
SyncStatus(notion_txns, sqlite_txns) ==
    LET notion_ids == {notion_txns[i].id : i \in 1..Len(notion_txns)}
        sqlite_ids == {sqlite_txns[i].id : i \in 1..Len(sqlite_txns)}
        ById(txns, id) == CHOOSE t \in {txns[i] : i \in 1..Len(txns)} : t.id = id
        only_in_notion == Cardinality(notion_ids \ sqlite_ids)
        only_in_sqlite == Cardinality(sqlite_ids \ notion_ids)
        out_of_sync ==
            Cardinality({id \in notion_ids \cap sqlite_ids :
                            NeedsUpdate(ById(notion_txns, id), ById(sqlite_txns, id))})
    IN [notion_count |-> Len(notion_txns),
        sqlite_count |-> Len(sqlite_txns),
        only_in_notion |-> only_in_notion,
        only_in_sqlite |-> only_in_sqlite,
        out_of_sync |-> out_of_sync,
        in_sync |-> /\ Len(notion_txns) = Len(sqlite_txns)
                    /\ only_in_notion = 0
                    /\ only_in_sqlite = 0
                    /\ out_of_sync = 0]

\* no generate(), categorization, validation call yet; no entity built yet
NoGenerate == [state |-> "idle", client |-> "ollama", attempts |-> 0,
               errors |-> <<>>, raised |-> "none",
               retry_after |-> 0, hint |-> 0, slept |-> 0]
NoCategorization ==
    [state |-> "idle", op |-> "none", transactions |-> <<>>, batch_size |-> 1,
     i |-> 1, all_results |-> <<>>, queue |-> <<>>, raised |-> "none",
     failed |-> {}, individual |-> {},
     response |-> [kind |-> "none", items |-> <<>>], results |-> <<>>]
NoValidation == [state |-> "idle", category |-> <<>>, result |-> <<>>]
NoTransaction ==
    [state |-> "none", op |-> "none", given |-> "null", error |-> "none",
     amount |-> 0, category |-> "", reviewed |-> FALSE, tags |-> <<>>,
     reimbursable |-> FALSE, expected_reimbursement |-> 0,
     actual_reimbursement |-> 0, reimbursement_status |-> "none"]

FaultChoices == IF faults > 0 THEN {FALSE, TRUE} ELSE {FALSE}

----------------------------------------------------------------------------
(* Actions *)

\* SyncService.sync up to the first _sync_unidirectional call; elapsed is the
\* time that passed since the previous call (started_at = datetime.now())
BeginSync(opts, elapsed) ==
    /\ UNCHANGED <<status, removed, other_write, gen, cat, val, entity>>
    /\ pc = "idle"
    /\ now + elapsed <= MaxTime
    /\ now' = now + elapsed
    /\ runs' = runs + 1
    /\ options' = opts
    /\ direction' = IF opts.direction = SQLITE_TO_NOTION
                    THEN SQLITE_TO_NOTION ELSE NOTION_TO_SQLITE
    /\ result' = NewSyncResult
    /\ result_n2s' = NewSyncResult
    /\ source_transactions' = <<>>
    /\ target_map' = <<>>
    /\ calls' = NoCalls
    /\ event' = NoEvent
    /\ pre' = [notion |-> notion, sqlite |-> sqlite]
    /\ pc' = "list"
    /\ UNCHANGED <<notion, sqlite, faults, last, prev>>

\* a caller starts a sync with any options
StartSync(opts, elapsed) ==
    /\ runs = 0
    /\ BeginSync(opts, elapsed)

\* a caller repeats the sync that just returned, with the same direction,
\* conflict resolution and mode, as a dry run or not
Rerun(dry, elapsed) ==
    /\ runs > 0
    /\ runs <= MaxReruns
    /\ last.status = "returned"
    /\ BeginSync([last.options EXCEPT !.dry_run = dry], elapsed)

\* a caller repeats the sync that just ended, with the same options
Resync(elapsed) ==
    /\ runs > 0
    /\ runs < MaxSyncs
    /\ last.status # "none"
    /\ BeginSync(last.options, elapsed)

\* a handler that logs the failure and goes on with empty listings
RaiseSwallowed(which) ==
    /\ pc' = "loop"
    /\ event' = [id |-> 0, decision |-> which, outcome |-> "raised"]
    /\ source_transactions' = <<>>
    /\ target_map' = <<>>
    /\ UNCHANGED <<notion, sqlite, now, options, direction, result, result_n2s,
                   runs, calls, pre, last, prev>>

\* the exception handler of sync: errors += 1, raise RepositoryError
Raise(which) ==
    /\ pc' = "idle"
    /\ prev' = last
    /\ last' = [status |-> "raised", options |-> options,
                result |-> Bump(NewSyncResult, "errors"), calls |-> calls]
    /\ event' = [id |-> 0, decision |-> which, outcome |-> "raised"]
    /\ source_transactions' = <<>>
    /\ target_map' = <<>>
    /\ UNCHANGED <<notion, sqlite, now, options, direction, result, result_n2s,
                   runs, calls, pre>>

\* _sync_unidirectional: source.list(), the incremental filter, target.list()
LoadLists ==
    /\ UNCHANGED <<status, removed, other_write, gen, cat, val, entity>>
    /\ pc = "list"
    /\ LET listed == RepoList(SourceOf(direction))
           targets == RepoList(TargetOf(direction))
       IN \/ /\ faults > 0
             /\ faults' = faults - 1
             /\ \E which \in {"source.list", "target.list"} : Raise(which)
          \/ /\ IsIncremental(options)
             /\ IncrementalFilterRaises(listed, options)
             /\ UNCHANGED faults
             /\ Raise("filter")
          \/ /\ ~(IsIncremental(options) /\ IncrementalFilterRaises(listed, options))
             /\ source_transactions' =
                    IF IsIncremental(options)
                    THEN IncrementalFilter(listed, options) ELSE listed
             /\ target_map' =
                    [id \in {targets[i].id : i \in 1..Len(targets)} |->
                        CHOOSE t \in {targets[i] : i \in 1..Len(targets)} : t.id = id]
             /\ pc' = "loop"
             /\ UNCHANGED <<notion, sqlite, now, options, direction, result,
                            result_n2s, faults, runs, calls, event, pre, last, prev>>

\* one iteration of the loop over source_transactions
ProcessTxn ==
    /\ UNCHANGED <<status, removed, other_write, gen, cat, val, entity>>
    /\ pc = "loop"
    /\ source_transactions # <<>>
    /\ LET source_txn == Head(source_transactions)
           target == TargetOf(direction)
           decision == Decision(source_txn, target_map, options.conflict_resolution)
           called == CallsTarget(source_txn, target_map, options)
       IN \E fault \in FaultChoices :
            LET raised ==
                    called /\ \/ fault
                              \/ decision = "create" /\ AddRaises(target, source_txn)
                              \/ decision = "update" /\ UpdateRaises(target, source_txn)
                written == called /\ ~raised
            IN /\ fault => called
               /\ faults' = IF fault THEN faults - 1 ELSE faults
               /\ notion' =
                    IF written /\ target = "notion"
                    THEN IF decision = "create"
                         THEN NotionAdd(notion, source_txn, now)
                         ELSE NotionUpdate(notion, source_txn, now)
                    ELSE notion
               /\ sqlite' =
                    IF written /\ target = "sqlite"
                    THEN IF decision = "create"
                         THEN SQLiteAdd(sqlite, source_txn)
                         ELSE SQLiteUpdate(sqlite, source_txn, now)
                    ELSE sqlite
               /\ calls' = IF called THEN [calls EXCEPT ![target] = @ + 1] ELSE calls
               /\ result' = IterationResult(result, decision, raised)
               /\ event' = [id |-> source_txn.id, decision |-> decision,
                            outcome |-> Outcome(decision, raised)]
    /\ source_transactions' = Tail(source_transactions)
    /\ UNCHANGED <<now, pc, options, direction, target_map, result_n2s, runs,
                   pre, last, prev>>

\* the first pass of a bidirectional sync is over: start SQLite -> Notion
SecondPass ==
    /\ UNCHANGED <<status, removed, other_write, gen, cat, val, entity>>
    /\ pc = "loop"
    /\ source_transactions = <<>>
    /\ options.direction = BIDIRECTIONAL
    /\ direction = NOTION_TO_SQLITE
    /\ result_n2s' = result
    /\ result' = NewSyncResult
    /\ direction' = SQLITE_TO_NOTION
    /\ target_map' = <<>>
    /\ pc' = "list"
    /\ UNCHANGED <<notion, sqlite, now, options, source_transactions, faults,
                   runs, calls, event, pre, last, prev>>

\* sync returns its SyncResult (the merged one for a bidirectional sync)
Return ==
    /\ UNCHANGED <<status, removed, other_write, gen, cat, val, entity>>
    /\ pc = "loop"
    /\ source_transactions = <<>>
    /\ ~(options.direction = BIDIRECTIONAL /\ direction = NOTION_TO_SQLITE)
    /\ prev' = last
    /\ last' = [status |-> "returned", options |-> options,
                result |-> IF options.direction = BIDIRECTIONAL
                           THEN MergeResults(result_n2s, result) ELSE result,
                calls |-> calls]
    /\ target_map' = <<>>
    /\ pc' = "idle"
    /\ UNCHANGED <<notion, sqlite, now, options, direction, source_transactions,
                   result, result_n2s, faults, runs, calls, event, pre>>

\* SyncService.get_sync_status: list both repositories and compare them; a
\* failing list() makes it raise RepositoryError
GetSyncStatus ==
    /\ pc = "idle"
    /\ \E fault \in FaultChoices :
         /\ faults' = IF fault THEN faults - 1 ELSE faults
         /\ status' =
              [outcome |-> IF fault THEN "raised" ELSE "returned",
               report |-> IF fault THEN NoReport
                          ELSE SyncStatus(NotionList(notion), SQLiteList(sqlite)),
               prior |-> status.report,
               removed |-> removed]
    /\ removed' = "none"
    /\ UNCHANGED <<other_write, gen, cat, val, entity>>
    /\ UNCHANGED <<notion, sqlite, now, pc, options, direction,
                   source_transactions, target_map, result, result_n2s, runs,
                   calls, event, pre, last, prev>>

\* TransactionRepository.delete(id) on one repository, outside any sync:
\* SQLite deletes the row, Notion archives the page; an unknown id is left
Delete(repo, id) ==
    /\ pc = "idle"
    /\ removed = "none"
    /\ id \in RepoIds(repo)
    /\ notion' = IF repo = "notion"
                 THEN [i \in DOMAIN notion \ {id} |-> notion[i]] ELSE notion
    /\ sqlite' = IF repo = "sqlite"
                 THEN [i \in DOMAIN sqlite \ {id} |-> sqlite[i]] ELSE sqlite
    /\ removed' = repo
    /\ UNCHANGED <<other_write, gen, cat, val, entity>>
    /\ UNCHANGED <<now, pc, options, direction, source_transactions, target_map,
                   result, result_n2s, faults, runs, calls, event, pre, last,
                   prev, status>>

\* another writer (a use case of the CLI, a second process) updates a
\* transaction through the repository the running sync writes to, after the
\* sync listed that repository and before it handled the transaction
Write(id, description, elapsed) ==
    /\ pc = "loop"
    /\ other_write = NoWrite
    /\ \E k \in DOMAIN source_transactions : source_transactions[k].id = id
    /\ id \in DOMAIN target_map
    /\ id \in RepoIds(TargetOf(direction))
    /\ now + elapsed <= MaxTime
    /\ now' = now + elapsed
    /\ LET txn == [target_map[id] EXCEPT !.description = description]
       IN /\ notion' = IF TargetOf(direction) = "notion"
                        THEN NotionUpdate(notion, txn, now') ELSE notion
          /\ sqlite' = IF TargetOf(direction) = "sqlite"
                        THEN SQLiteUpdate(sqlite, txn, now') ELSE sqlite
    /\ other_write' = [id |-> id, repo |-> TargetOf(direction),
                   description |-> description, t |-> now']
    /\ UNCHANGED <<gen, cat, val, entity>>
    /\ UNCHANGED <<pc, options, direction, source_transactions, target_map,
                   result, result_n2s, faults, runs, calls, event, pre, last,
                   prev, status, removed>>

----------------------------------------------------------------------------
(* LLM clients: OllamaClient.generate and LiteLLMClient.generate *)

StopAfterAttempt == 5      \* stop=stop_after_attempt(5)

LLMClients == {"ollama", "litellm"}

\* what one request to the provider can end with
ProviderFailures == {"http_429", "timeout", "http_503", "http_401", "unknown"}

\* OllamaClient._parse_ollama_error
ParseOllamaError(failure) ==
    CASE failure = "http_429" -> "RateLimitError"
      [] failure = "timeout" -> "TransientError"
      [] failure = "http_503" -> "TransientError"
      [] failure = "http_401" -> "PermanentError"
      [] OTHER -> "TransientError"

\* LiteLLMClient._parse_litellm_error, which looks for the same marks in the
\* text of the error
ParseLiteLLMError(failure) ==
    CASE failure = "http_429" -> "RateLimitError"
      [] failure = "timeout" -> "TransientError"
      [] failure = "http_503" -> "TransientError"
      [] failure = "http_401" -> "PermanentError"
      [] OTHER -> "TransientError"

ParseError(client, failure) ==
    IF client = "ollama" THEN ParseOllamaError(failure)
    ELSE ParseLiteLLMError(failure)

\* a predicate that lets every LLM error be retried
IsRetryableErrorAlways(error) ==
    error \in {"RateLimitError", "TransientError", "PermanentError"}

\* _is_retryable_ollama_error / _is_retryable_error
IsRetryableError(error) == error \in {"RateLimitError", "TransientError"}

\* a caller calls generate(prompt)
\* wait=wait_exponential(multiplier=2, min=5, max=120), in seconds
WaitMultiplier == 2
WaitMin == 5
WaitMax == 120

\* retry_after = 60 when the response carries no usable Retry-After
DefaultRetryAfter == 60

\* values of the Retry-After header of an HTTP 429 response, in seconds
RetryAfters == {1, 30, DefaultRetryAfter}

\* wait_exponential: multiplier * 2 ** (attempt_number - 1), kept within
\* [min, max]; it is given the number of the attempt that failed and
\* nothing of the error
WaitExponential(attempt_number) ==
    LET exp == WaitMultiplier * 2 ^ (attempt_number - 1)
        capped == IF exp > WaitMax THEN WaitMax ELSE exp
    IN IF capped < WaitMin THEN WaitMin ELSE capped

CallGenerate(client) ==
    /\ gen.state # "calling"
    /\ gen' = [NoGenerate EXCEPT !.state = "calling", !.client = client]
    /\ UNCHANGED <<cat, val, entity>>
    /\ UNCHANGED syncVars

\* one attempt of the retrying wrapper: the body of generate runs once; a
\* PermanentError is raised as it is, a retryable error is retried until
\* StopAfterAttempt attempts were made, and then RetryError is raised.
\* retry_after is the hint the RateLimitError of this attempt carries (0
\* for every other outcome), hint the one of the attempt before, slept the
\* time the wrapper slept between the two
Attempt ==
    /\ gen.state = "calling"
    /\ \E failure \in ProviderFailures \cup {"none"}, header \in RetryAfters :
         LET error == IF failure = "none" THEN "none"
                      ELSE ParseError(gen.client, failure)
             made == gen.attempts + 1
         IN gen' = [gen EXCEPT
                      !.attempts = made,
                      !.errors = Append(@, error),
                      !.retry_after = IF error = "RateLimitError"
                                      THEN header ELSE 0,
                      !.hint = gen.retry_after,
                      !.slept = IF gen.attempts = 0 THEN 0
                                ELSE WaitExponential(gen.attempts),
                      !.state = IF error = "none" THEN "returned"
                                ELSE IF ~IsRetryableError(error) THEN "raised"
                                ELSE IF made >= StopAfterAttempt THEN "raised"
                                ELSE "calling",
                      !.raised = IF error = "none" THEN "none"
                                 ELSE IF ~IsRetryableError(error) THEN error
                                 ELSE IF made >= StopAfterAttempt THEN "RetryError"
                                 ELSE "none"]
    /\ UNCHANGED <<cat, val, entity>>
    /\ UNCHANGED syncVars

----------------------------------------------------------------------------
(* CategorizationService and CategorizationResponseParser *)

MaxTransactions == 3   \* longest list given to categorize_batch_optimized
MaxBatchSize == 2      \* largest batch_size of the service

\* str(txn.get("id", "")) of the transactions to categorize
TransactionIds == {"t1", "t2", "t3"}

\* lists of transactions with different ids, the empty list included
TransactionLists ==
    {l \in UNION {[1..n -> TransactionIds] : n \in 0..MaxTransactions} :
        \A a, b \in DOMAIN l : a # b => l[a] # l[b]}

\* the synthetic result of every failure path
FallbackResult ==
    [category |-> "Miscellaneous", subcategory |-> "Uncategorized",
     confidence |-> 0]

\* a result parsed and validated from an element of the response; confidence
\* in hundredths
ParsedResult ==
    [category |-> "FOOD & GROCERIES", subcategory |-> "Groceries",
     confidence |-> 95]

\* what generate() can end with for its caller: a response, or one of the
\* errors of the LLM client interface (RetryError when the attempts of a
\* retried call are exhausted)
GenerateErrors ==
    {"OllamaError", "RateLimitError", "TransientError", "PermanentError",
     "RetryError"}

\* responses to a batch prompt: a JSON array with elements for some of the
\* ids asked for, or text that holds no JSON array
\* Each element is given by its id and by what its "confidence" holds: no
\* such key, a value float() raises for (a word, null), or a number, here
\* in hundredths.
ConfidenceInputs ==
    {[kind |-> "absent", value |-> 0], [kind |-> "unparsable", value |-> 0]}
        \cup {[kind |-> "number", value |-> v] : v \in {0 - 50, 95, 150}}

NoResponse == [kind |-> "none", items |-> <<>>]

BatchResponses(batch_ids) ==
    {[kind |-> "array", items |-> items] :
        items \in UNION {[ids -> ConfidenceInputs] : ids \in SUBSET batch_ids}}
        \cup {[kind |-> "malformed", items |-> <<>>]}

\* max(0.0, min(1.0, confidence)), in hundredths
Clamp(confidence) ==
    IF confidence < 0 THEN 0 ELSE IF confidence > 100 THEN 100 ELSE confidence

\* float(item.get("confidence", 0.5)), clamped; float() has not raised
ItemConfidence(input) ==
    IF input.kind = "absent" THEN 50 ELSE Clamp(input.value)

\* responses to a prompt for one transaction
SingleResponses == {[kind |-> "object"], [kind |-> "malformed"]}

\* parse_optimized_batch_response: the parsed elements, missing ids filled
\* with the fallback; the fallback for every id when parsing fails
\* parse_optimized_batch_response: a float() that raises for one element
\* is caught by the except clause around the whole loop
ParseOptimizedBatchResponse(response, transaction_ids) ==
    IF \/ response.kind # "array"
       \/ \E id \in DOMAIN response.items : response.items[id].kind = "unparsable"
    THEN [id \in transaction_ids |-> FallbackResult]
    ELSE [id \in transaction_ids \cup DOMAIN response.items |->
            IF id \in DOMAIN response.items
            THEN [ParsedResult EXCEPT
                    !.confidence = ItemConfidence(response.items[id])]
            ELSE FallbackResult]

\* parse_full_response
ParseFullResponse(response) ==
    IF response.kind = "object" THEN ParsedResult ELSE FallbackResult

\* parse_category_response followed by parse_subcategory_response: a category
\* that failed to parse is Miscellaneous, a subcategory that failed to parse
\* is the first one of the category with confidence 0.3
ParseTwoSteps(category_response, subcategory_response) ==
    [category |-> IF category_response.kind = "object"
                  THEN ParsedResult.category ELSE "Miscellaneous",
     subcategory |-> IF category_response.kind = "object"
                     THEN ParsedResult.subcategory ELSE "None",
     confidence |-> IF subcategory_response.kind = "object"
                    THEN ParsedResult.confidence ELSE 30]

\* the ids of transactions[i : i + batch_size], 1-based
BatchIds(transactions, i, batch_size) ==
    {transactions[k] : k \in {j \in DOMAIN transactions : j >= i /\ j < i + batch_size}}

\* except OllamaError: the only error the service catches around generate
CaughtByService(error) == error = "OllamaError"

catIdle == cat.state \in {"idle", "returned", "raised"}

\* categorize_batch_optimized(transactions) is called; an empty list returns {}
CategorizeBatchOptimized(transactions, batch_size) ==
    /\ catIdle
    /\ cat' = [state |-> IF transactions = <<>> THEN "returned" ELSE "batch",
               op |-> "categorize_batch_optimized",
               transactions |-> transactions, batch_size |-> batch_size,
               i |-> 1, all_results |-> <<>>, queue |-> <<>>, raised |-> "none",
               failed |-> {}, individual |-> {}, response |-> NoResponse,
               results |-> <<>>]
    /\ UNCHANGED <<gen, val, entity>>
    /\ UNCHANGED syncVars

\* one iteration of the loop over the batches: build the prompt, generate,
\* parse; OllamaError starts the fallback for the batch, any other error
\* leaves categorize_batch_optimized.  failed, individual and response keep
\* the history of the call: the ids of the batches whose generate failed or
\* whose response held no JSON array, the ids given to categorize_full, and
\* the response to the last batch prompt
ProcessBatch ==
    /\ cat.state = "batch"
    /\ cat.i <= Len(cat.transactions)
    /\ LET batch_ids == BatchIds(cat.transactions, cat.i, cat.batch_size)
       IN \/ \E response \in BatchResponses(batch_ids) :
               cat' = [cat EXCEPT
                         !.all_results =
                             ParseOptimizedBatchResponse(response, batch_ids) @@ @,
                         !.failed = IF response.kind = "malformed"
                                    THEN @ \cup batch_ids ELSE @,
                         !.response = response,
                         !.i = @ + cat.batch_size]
          \/ \E error \in GenerateErrors :
               cat' = IF CaughtByService(error)
                      THEN [cat EXCEPT
                              !.state = "fallback",
                              !.failed = @ \cup batch_ids,
                              !.response = NoResponse,
                              !.queue = SubSeq(cat.transactions, cat.i,
                                               IF cat.i + cat.batch_size - 1
                                                    > Len(cat.transactions)
                                               THEN Len(cat.transactions)
                                               ELSE cat.i + cat.batch_size - 1)]
                      ELSE [cat EXCEPT !.state = "raised", !.raised = error,
                                       !.failed = @ \cup batch_ids,
                                       !.response = NoResponse]
    /\ UNCHANGED <<gen, val, entity>>
    /\ UNCHANGED syncVars

\* the fallback loop: categorize_full for one transaction of the failed
\* batch; whatever categorize_full raises becomes the fallback result
FallbackOne ==
    /\ cat.state = "fallback"
    /\ cat.queue # <<>>
    /\ \E res \in {ParseFullResponse(r) : r \in SingleResponses}
                  \cup {FallbackResult} :
         cat' = [cat EXCEPT
                   !.all_results = (Head(cat.queue) :> res) @@ @,
                   !.individual = @ \cup {Head(cat.queue)},
                   !.queue = Tail(@),
                   !.state = IF Tail(cat.queue) = <<>> THEN "batch" ELSE "fallback",
                   !.i = IF Tail(cat.queue) = <<>> THEN @ + cat.batch_size ELSE @]
    /\ UNCHANGED <<gen, val, entity>>
    /\ UNCHANGED syncVars

\* return all_results
ReturnBatches ==
    /\ cat.state = "batch"
    /\ cat.i > Len(cat.transactions)
    /\ cat' = [cat EXCEPT !.state = "returned"]
    /\ UNCHANGED <<gen, val, entity>>
    /\ UNCHANGED syncVars

\* categorize_full(transaction): one generate call, then parse_full_response
CategorizeFull(id) ==
    /\ catIdle
    /\ \/ \E response \in SingleResponses :
            cat' = [NoCategorization EXCEPT
                      !.state = "returned", !.op = "categorize_full",
                      !.transactions = <<id>>,
                      !.all_results = id :> ParseFullResponse(response)]
       \/ \E error \in GenerateErrors :
            cat' = IF CaughtByService(error)
                   THEN [NoCategorization EXCEPT
                           !.state = "returned", !.op = "categorize_full",
                           !.transactions = <<id>>,
                           !.all_results = id :> FallbackResult]
                   ELSE [NoCategorization EXCEPT
                           !.state = "raised", !.op = "categorize_full",
                           !.transactions = <<id>>, !.raised = error]
    /\ UNCHANGED <<gen, val, entity>>
    /\ UNCHANGED syncVars

\* categorize_single(transaction): generate and parse the category, then
\* generate and parse the subcategory; either generate can fail
CategorizeSingle(id) ==
    /\ catIdle
    /\ \/ \E r1 \in SingleResponses, r2 \in SingleResponses :
            cat' = [NoCategorization EXCEPT
                      !.state = "returned", !.op = "categorize_single",
                      !.transactions = <<id>>,
                      !.all_results = id :> ParseTwoSteps(r1, r2)]
       \/ \E error \in GenerateErrors :
            cat' = IF CaughtByService(error)
                   THEN [NoCategorization EXCEPT
                           !.state = "returned", !.op = "categorize_single",
                           !.transactions = <<id>>,
                           !.all_results = id :> FallbackResult]
                   ELSE [NoCategorization EXCEPT
                           !.state = "raised", !.op = "categorize_single",
                           !.transactions = <<id>>, !.raised = error]
    /\ UNCHANGED <<gen, val, entity>>
    /\ UNCHANGED syncVars

\* the elements of a list, in the order of the list, at the positions in S
RECURSIVE Pick(_, _)
Pick(list, S) ==
    IF S = {} THEN <<>>
    ELSE LET m == CHOOSE x \in S : \A y \in S : x <= y
         IN <<list[m]>> \o Pick(list, S \ {m})

\* responses to the batch category prompt of categorize_batch: a JSON array
\* whose elements answer some of the transactions of the batch, in their
\* order, with or without one more element that answers none of them; or
\* text that holds no JSON array.  An element is given by the transaction
\* the LLM wrote it for.
CategoryResponses(batch) ==
    {[kind |-> "array", items |-> Pick(batch, S) \o extra] :
        S \in SUBSET DOMAIN batch, extra \in {<<>>, <<"extra">>}}
        \cup {[kind |-> "malformed", items |-> <<>>]}

\* parse_batch_response(response, transaction_count): one result per element
\* of the array, whatever their number; transaction_count generic results
\* when parsing fails.  answers names the transaction a result was derived
\* for ("any" for a generic result).
ParseBatchResponse(response, transaction_count) ==
    IF response.kind = "array"
    THEN [k \in 1..Len(response.items) |->
            [answers |-> response.items[k], subcategory |-> "None"]]
    ELSE [k \in 1..transaction_count |->
            [answers |-> "any", subcategory |-> "None"]]

\* categorize_batch(transactions) is called; an empty list returns []
CategorizeBatch(transactions, batch_size) ==
    /\ catIdle
    /\ cat' = [NoCategorization EXCEPT
                 !.state = IF transactions = <<>> THEN "returned" ELSE "step1",
                 !.op = "categorize_batch",
                 !.transactions = transactions, !.batch_size = batch_size]
    /\ UNCHANGED <<gen, val, entity>>
    /\ UNCHANGED syncVars

\* step 1 for one batch: generate and parse_batch_response, whose
\* results are appended; on OllamaError one categorize_single result per
\* transaction of the batch; any other error leaves categorize_batch
CategorizeBatchStep1 ==
    /\ cat.state = "step1"
    /\ cat.i <= Len(cat.transactions)
    /\ LET last_k == IF cat.i + cat.batch_size - 1 > Len(cat.transactions)
                     THEN Len(cat.transactions)
                     ELSE cat.i + cat.batch_size - 1
           batch == SubSeq(cat.transactions, cat.i, last_k)
       IN \/ \E response \in CategoryResponses(batch) :
               cat' = [cat EXCEPT
                         !.results =
                             @ \o ParseBatchResponse(response, Len(batch)),
                         !.response = response,
                         !.i = @ + cat.batch_size]
          \/ \E error \in GenerateErrors :
               cat' = IF CaughtByService(error)
                      THEN [cat EXCEPT
                              !.results =
                                  @ \o [k \in 1..Len(batch) |->
                                          [answers |-> batch[k],
                                           subcategory |-> "done"]],
                              !.response = NoResponse,
                              !.i = @ + cat.batch_size]
                      ELSE [cat EXCEPT !.state = "raised", !.raised = error,
                                       !.response = NoResponse]
    /\ UNCHANGED <<gen, val, entity>>
    /\ UNCHANGED syncVars

\* step 2: for i, (txn, result) in enumerate(zip(transactions, results)) the
\* subcategory is determined (or the fallback one after OllamaError) and
\* results[i] replaced, keeping result.category; then results is returned.
\* An error other than OllamaError leaves categorize_batch.
CategorizeBatchStep2 ==
    /\ cat.state = "step1"
    /\ cat.i > Len(cat.transactions)
    /\ LET zipped == IF Len(cat.results) < Len(cat.transactions)
                     THEN Len(cat.results) ELSE Len(cat.transactions)
       IN \/ cat' = [cat EXCEPT
                       !.state = "returned",
                       !.results =
                           [k \in DOMAIN cat.results |->
                              IF k <= zipped
                              THEN [cat.results[k] EXCEPT !.subcategory = "done"]
                              ELSE cat.results[k]]]
          \/ /\ zipped > 0
             /\ \E error \in GenerateErrors :
                  /\ ~CaughtByService(error)
                  /\ cat' = [cat EXCEPT !.state = "raised", !.raised = error]
    /\ UNCHANGED <<gen, val, entity>>
    /\ UNCHANGED syncVars

----------------------------------------------------------------------------
(* CategorizationResponseParser._validate_category *)

\* Strings are sequences of characters, so that str.lower() and the
\* substring test are computed and not assumed.
MaxLen == 3   \* longest category string the LLM returns

Characters == {"F", "f", "O", "o", "M", "m"}

Strings == UNION {[1..n -> Characters] : n \in 0..MaxLen}

\* the fallback category, spelled in the model's characters
Miscellaneous == <<"M">>

\* set(CATEGORY_STRUCTURE.keys()): the category names of the taxonomy
valid_categories == {<<"F", "O">>, <<"O", "M">>, Miscellaneous}

LowerChar(ch) ==
    CASE ch = "F" -> "f"
      [] ch = "O" -> "o"
      [] ch = "M" -> "m"
      [] OTHER -> ch

\* str.lower()
Lower(str) == [k \in DOMAIN str |-> LowerChar(str[k])]

\* a in b, for strings
Contains(a, b) ==
    \E k \in 0..(Len(b) - Len(a)) : SubSeq(b, k + 1, k + Len(a)) = a

\* either direction of the partial match, ignoring case
PartialMatch(category, valid_cat) ==
    \/ Contains(Lower(category), Lower(valid_cat))
    \/ Contains(Lower(valid_cat), Lower(category))

\* _validate_category without its case-insensitive tier
ValidateCategoryPartialFirst(category) ==
    IF category \in valid_categories
    THEN {category}
    ELSE IF \E v \in valid_categories : PartialMatch(category, v)
    THEN {v \in valid_categories : PartialMatch(category, v)}
    ELSE {Miscellaneous}

\* _validate_category: the values it can return.  The two loops iterate a
\* set, whose order is not fixed, so every category that matches in a tier
\* can be the first one found.
ValidateCategory(category) ==
    IF category \in valid_categories
    THEN {category}
    ELSE IF \E v \in valid_categories : Lower(category) = Lower(v)
    THEN {v \in valid_categories : Lower(category) = Lower(v)}
    ELSE IF \E v \in valid_categories : PartialMatch(category, v)
    THEN {v \in valid_categories : PartialMatch(category, v)}
    ELSE {Miscellaneous}

\* the parser validates the category string of a response
CallValidateCategory ==
    /\ val.state = "idle"
    /\ \E res \in ValidateCategory(val.category) :
         val' = [val EXCEPT !.state = "returned", !.result = res]
    /\ UNCHANGED <<gen, cat, entity>>
    /\ UNCHANGED syncVars

----------------------------------------------------------------------------
(* Transaction entity *)

MaxAmount == 2   \* largest amount and reimbursement, in whole units

\* ReimbursementStatus
ReimbursementStatus == {"none", "pending", "partial", "complete"}

Amounts == {0 - MaxAmount, 0, 1, MaxAmount}
Reimbursements == (0 - 1)..MaxAmount
Categories == {"", "c1", "c2"}
TagInputs == {"a", "A ", " "}

Abs(n) == IF n < 0 THEN 0 - n ELSE n

\* tag.lower().strip()
LowerStrip(tag) ==
    CASE tag = "A " -> "a"
      [] tag = " " -> ""
      [] OTHER -> tag

\* [tag.lower().strip() for tag in self.tags if tag.strip()]
RECURSIVE NormalizeTags(_)
NormalizeTags(tags) ==
    IF tags = <<>> THEN <<>>
    ELSE IF LowerStrip(Head(tags)) = "" THEN NormalizeTags(Tail(tags))
    ELSE <<LowerStrip(Head(tags))>> \o NormalizeTags(Tail(tags))

\* [t for t in self.tags if t != tag]
RECURSIVE WithoutTag(_, _)
WithoutTag(tags, tag) ==
    IF tags = <<>> THEN <<>>
    ELSE IF Head(tags) = tag THEN WithoutTag(Tail(tags), tag)
    ELSE <<Head(tags)>> \o WithoutTag(Tail(tags), tag)

HasTag(tags, tag) == \E k \in DOMAIN tags : tags[k] = tag

\* the validations of __post_init__ that raise ValueError
PostInitRaises(t) ==
    \/ t.category = ""
    \/ t.expected_reimbursement < 0
    \/ t.actual_reimbursement < 0
    \/ t.actual_reimbursement > Abs(t.amount)

\* __post_init__ that keeps the reimbursement_status it was given
PostInitKeepsStatus(t) ==
    [t EXCEPT !.tags = NormalizeTags(@)]

\* __post_init__ after its validations: normalise the tags and set
\* reimbursement_status from the amounts
PostInit(t) ==
    [t EXCEPT
       !.tags = NormalizeTags(@),
       !.reimbursement_status =
           IF ~t.reimbursable THEN "none"
           ELSE IF t.actual_reimbursement = 0 THEN "pending"
           ELSE IF /\ t.actual_reimbursement >= t.expected_reimbursement
                   /\ t.expected_reimbursement > 0 THEN "complete"
           ELSE IF t.actual_reimbursement > 0 THEN "partial"
           ELSE @]

\* Transaction(...): the new entity, or the entity in hand with the
\* ValueError of the call
NewTransaction(t) ==
    IF PostInitRaises(t)
    THEN [entity EXCEPT !.op = t.op, !.given = t.given, !.error = "ValueError"]
    ELSE [PostInit(t) EXCEPT !.state = "made", !.error = "none"]

\* _copy_with(**kwargs): the constructor on the fields of self, changed
CopyWith(changed) == NewTransaction(changed)

\* a caller constructs a Transaction
Construct ==
    /\ entity.state = "none"
    /\ \E amount \in Amounts, category \in {"", "c1"},
          tags \in {<<>>, <<"A ">>, <<" ", "a">>}, reimbursable \in BOOLEAN,
          expected \in Reimbursements, actual \in Reimbursements,
          given \in ReimbursementStatus :
         entity' = NewTransaction(
             [state |-> "none", op |-> "constructor", given |-> given,
              error |-> "none", amount |-> amount, category |-> category,
              reviewed |-> FALSE, tags |-> tags, reimbursable |-> reimbursable,
              expected_reimbursement |-> expected,
              actual_reimbursement |-> actual,
              reimbursement_status |-> given])
    /\ UNCHANGED <<gen, cat, val>>
    /\ UNCHANGED syncVars

\* mark_as_reviewed()
MarkAsReviewed ==
    /\ entity.state = "made"
    /\ entity' = CopyWith([entity EXCEPT !.op = "mark_as_reviewed",
                                         !.given = "null", !.reviewed = TRUE])
    /\ UNCHANGED <<gen, cat, val>>
    /\ UNCHANGED syncVars

\* update_category(new_category)
UpdateCategory(new_category) ==
    /\ entity.state = "made"
    /\ entity' = IF new_category = ""
                 THEN [entity EXCEPT !.op = "update_category",
                                     !.given = "null", !.error = "ValueError"]
                 ELSE CopyWith([entity EXCEPT !.op = "update_category",
                                              !.given = "null",
                                              !.category = new_category])
    /\ UNCHANGED <<gen, cat, val>>
    /\ UNCHANGED syncVars

\* anonymize(): description and notes are not part of the model's entity
Anonymize ==
    /\ entity.state = "made"
    /\ entity' = CopyWith([entity EXCEPT !.op = "anonymize", !.given = "null"])
    /\ UNCHANGED <<gen, cat, val>>
    /\ UNCHANGED syncVars

\* add_tag(tag): self when the tag is empty or already there
AddTag(tag) ==
    /\ entity.state = "made"
    /\ entity' = IF LowerStrip(tag) = "" \/ HasTag(entity.tags, LowerStrip(tag))
                 THEN [entity EXCEPT !.op = "add_tag", !.given = "null",
                                     !.error = "none"]
                 ELSE CopyWith([entity EXCEPT
                                  !.op = "add_tag", !.given = "null",
                                  !.tags = Append(@, LowerStrip(tag))])
    /\ UNCHANGED <<gen, cat, val>>
    /\ UNCHANGED syncVars

\* remove_tag(tag): self when the tag is not there
RemoveTag(tag) ==
    /\ entity.state = "made"
    /\ entity' = IF ~HasTag(entity.tags, LowerStrip(tag))
                 THEN [entity EXCEPT !.op = "remove_tag", !.given = "null",
                                     !.error = "none"]
                 ELSE CopyWith([entity EXCEPT
                                  !.op = "remove_tag", !.given = "null",
                                  !.tags = WithoutTag(@, LowerStrip(tag))])
    /\ UNCHANGED <<gen, cat, val>>
    /\ UNCHANGED syncVars

\* update_reimbursement(actual_amount, new_status) as called by op:
\* new_status "null" is None
UpdatedReimbursement(op, actual_amount, new_status) ==
    IF actual_amount < 0 \/ actual_amount > Abs(entity.amount)
    THEN [entity EXCEPT !.op = op, !.given = new_status, !.error = "ValueError"]
    ELSE CopyWith(
           [entity EXCEPT
              !.op = op, !.given = new_status,
              !.actual_reimbursement = actual_amount,
              !.reimbursement_status =
                  IF new_status # "null" THEN new_status
                  ELSE IF actual_amount = 0 THEN "pending"
                  ELSE IF /\ actual_amount >= entity.expected_reimbursement
                          /\ entity.expected_reimbursement > 0
                       THEN "complete"
                  ELSE IF actual_amount > 0 THEN "partial"
                  ELSE "none"])

UpdateReimbursement(actual_amount, new_status) ==
    /\ entity.state = "made"
    /\ entity' = UpdatedReimbursement("update_reimbursement", actual_amount,
                                      new_status)
    /\ UNCHANGED <<gen, cat, val>>
    /\ UNCHANGED syncVars

\* UpdateReimbursementUseCase.execute on the stored transaction: it must be
\* reimbursable; the repository stores what update_reimbursement returned
Execute(op, actual_amount, new_status) ==
    IF ~entity.reimbursable
    THEN [entity EXCEPT !.op = op, !.given = new_status, !.error = "ValueError"]
    ELSE UpdatedReimbursement(op, actual_amount, new_status)

\* UpdateReimbursementUseCase.mark_as_pending
MarkAsPending ==
    /\ entity.state = "made"
    /\ entity' = Execute("mark_as_pending", 0, "pending")
    /\ UNCHANGED <<gen, cat, val>>
    /\ UNCHANGED syncVars

\* UpdateReimbursementUseCase.mark_as_complete(actual_reimbursement): the
\* expected amount when none is given (here -1), which must not be 0
MarkAsComplete(actual_reimbursement) ==
    /\ entity.state = "made"
    /\ entity' =
         IF actual_reimbursement < 0 /\ entity.expected_reimbursement = 0
         THEN [entity EXCEPT !.op = "mark_as_complete", !.given = "complete",
                             !.error = "ValueError"]
         ELSE Execute("mark_as_complete",
                      IF actual_reimbursement < 0
                      THEN entity.expected_reimbursement
                      ELSE actual_reimbursement,
                      "complete")
    /\ UNCHANGED <<gen, cat, val>>
    /\ UNCHANGED syncVars

----------------------------------------------------------------------------
(* Initial states and specifications *)


\* a function from any subset of TxnIds to records
Tables(records) == UNION {[ids -> records] : ids \in SUBSET TxnIds}

\* transactions without tags
NoTags == {<<>>}

InitNotionPages ==
    [description : {"d1"}, tags : NoTags, last_edited_time : InitTimes]

\* a row added by a sync from Notion has an aware updated_at, a row written
\* locally a naive one
InitSQLiteRows ==
    [description : Descriptions, tags : NoTags,
     updated_at : {DateTime(t, a) : t \in InitTimes, a \in BOOLEAN}]

\* mode and last_sync_time as a caller of SyncService.sync combines them: a
\* full sync, or an incremental sync since an instant given as a naive or as
\* an aware datetime
ModeChoices ==
    {<<FULL, DateTime(NoTime, FALSE)>>,
     <<INCREMENTAL, DateTime(StartTime, FALSE)>>,
     <<INCREMENTAL, DateTime(StartTime, TRUE)>>}

AllSyncOptions ==
    {SyncOptions(d, c, m[1], m[2], dry) :
        d \in SyncDirection, c \in ConflictResolution,
        m \in ModeChoices, dry \in BOOLEAN}

\* the sync engine at rest, the repositories being given
InitEngine ==
    /\ now = StartTime
    /\ pc = "idle"
    /\ options = NoOutcome.options
    /\ direction = NOTION_TO_SQLITE
    /\ source_transactions = <<>>
    /\ target_map = <<>>
    /\ result = NewSyncResult
    /\ result_n2s = NewSyncResult
    /\ faults = MaxFaults
    /\ runs = 0
    /\ calls = NoCalls
    /\ event = NoEvent
    /\ pre = [notion |-> notion, sqlite |-> sqlite]
    /\ last = NoOutcome
    /\ prev = NoOutcome
    /\ status = NoStatus
    /\ removed = "none"
    /\ other_write = NoWrite

\* the sync engine and its repositories before the first sync
InitSync ==
    /\ notion \in Tables(InitNotionPages)
    /\ sqlite \in Tables(InitSQLiteRows)
    /\ InitEngine

Init ==
    /\ InitSync
    /\ gen = NoGenerate
    /\ cat = NoCategorization
    /\ val = NoValidation
    /\ entity = NoTransaction

\* the initial timestamps already say how long ago the repositories were
\* written; time passes between one sync and the next
Elapsed == IF runs = 0 THEN {0} ELSE {0, 1}

Next ==
    \/ \E opts \in AllSyncOptions, elapsed \in Elapsed : StartSync(opts, elapsed)
    \/ LoadLists
    \/ ProcessTxn
    \/ SecondPass
    \/ Return

\* one call of sync, with any options, on any repository contents; Init
\* holds every shape of record an earlier sync leaves behind (rows stamped
\* by update with a naive clock value, rows added with Notion's aware
\* timestamp, pages stamped by Notion)
Spec == Init /\ [][Next]_vars

\* the same sync run again: the repositories hold at most the transaction
\* RepeatIds at first, the first sync is any sync, the next ones repeat it
RepeatIds == {1}

InitRepeat ==
    /\ Init
    /\ DOMAIN notion \subseteq RepeatIds
    /\ DOMAIN sqlite \subseteq RepeatIds

NextRepeat ==
    \/ \E opts \in AllSyncOptions, elapsed \in Elapsed :
            StartSync(opts, elapsed)
    \/ \E dry \in BOOLEAN, elapsed \in Elapsed : Rerun(dry, elapsed)
    \/ LoadLists
    \/ ProcessTxn
    \/ SecondPass
    \/ Return

SpecRepeat == InitRepeat /\ [][NextRepeat]_vars

\* non-dry-run bidirectional syncs under the default NEWEST_WINS policy
NewestWinsBothWays ==
    {SyncOptions(BIDIRECTIONAL, NEWEST_WINS, m[1], m[2], FALSE) : m \in ModeChoices}

\* a caller that syncs both ways again and again, some time after the
\* repositories were last written, and looks at the sync status in between
NextBidirectional ==
    \/ \E opts \in NewestWinsBothWays, elapsed \in {0, 1} :
            StartSync(opts, elapsed)
    \/ \E elapsed \in {0, 1} : Resync(elapsed)
    \/ LoadLists
    \/ ProcessTxn
    \/ SecondPass
    \/ Return
    \/ GetSyncStatus

SpecBidirectional == InitRepeat /\ [][NextBidirectional]_vars

\* full syncs of every direction and policy, dry or not
FullSyncOptions == {opts \in AllSyncOptions : opts.mode = FULL}

\* a caller that looks at the sync status and then runs one full sync
NextStatusThenSync ==
    \/ /\ runs = 0
       /\ status = NoStatus
       /\ GetSyncStatus
    \/ \E opts \in FullSyncOptions, elapsed \in Elapsed : StartSync(opts, elapsed)
    \/ LoadLists
    \/ ProcessTxn
    \/ SecondPass
    \/ Return

SpecStatusThenSync == Init /\ [][NextStatusThenSync]_vars

\* callers that inspect the repositories and delete transactions
NextStatus ==
    \/ GetSyncStatus
    \/ \E repo \in {"notion", "sqlite"}, id \in TxnIds : Delete(repo, id)

SpecStatus == Init /\ [][NextStatus]_vars

\* transactions carrying the same two tags in either order
TagLists == {<<"a", "b">>, <<"b", "a">>}

TaggedNotionPages ==
    [description : {"d1"}, tags : TagLists, last_edited_time : InitTimes]

TaggedSQLiteRows ==
    [description : Descriptions, tags : TagLists,
     updated_at : {DateTime(t, a) : t \in InitTimes, a \in BOOLEAN}]

InitTagged ==
    /\ notion \in [RepeatIds -> TaggedNotionPages]
    /\ sqlite \in [RepeatIds -> TaggedSQLiteRows]
    /\ InitEngine
    /\ gen = NoGenerate
    /\ cat = NoCategorization
    /\ val = NoValidation
    /\ entity = NoTransaction

\* get_sync_status, then one full sync, on tagged transactions
NextTagged ==
    \/ /\ runs = 0
       /\ status = NoStatus
       /\ GetSyncStatus
    \/ \E opts \in FullSyncOptions, elapsed \in Elapsed : StartSync(opts, elapsed)
    \/ LoadLists
    \/ ProcessTxn
    \/ SecondPass
    \/ Return

SpecTagged == InitTagged /\ [][NextTagged]_vars

\* SyncTransactionsUseCase.execute(direction, conflict_resolution, mode,
\* dry_run): the options it builds carry no last_sync_time
SyncTransactionsExecute(dir, strategy, mode, dry, elapsed) ==
    /\ runs <= MaxReruns
    /\ BeginSync(SyncOptions(dir, strategy, mode, DateTime(NoTime, FALSE), dry),
                 elapsed)

\* callers of the use case, one execute after the other, with the default
\* conflict_resolution ("newest_wins")
NextUseCase ==
    \/ \E dir \in SyncDirection, mode \in SyncMode, dry \in BOOLEAN,
          elapsed \in Elapsed :
            SyncTransactionsExecute(dir, NEWEST_WINS, mode, dry, elapsed)
    \/ LoadLists
    \/ ProcessTxn
    \/ SecondPass
    \/ Return

SpecUseCase == InitRepeat /\ [][NextUseCase]_vars

\* a sync while another writer updates the repository it writes to
NextConcurrent ==
    \/ \E opts \in FullSyncOptions, elapsed \in Elapsed : StartSync(opts, elapsed)
    \/ LoadLists
    \/ \E id \in RepeatIds, description \in Descriptions, elapsed \in {0, 1} :
            Write(id, description, elapsed)
    \/ ProcessTxn
    \/ SecondPass
    \/ Return

SpecConcurrent == InitRepeat /\ [][NextConcurrent]_vars

\* the sync engine at rest on empty repositories
InitIdle ==
    /\ Init
    /\ notion = <<>>
    /\ sqlite = <<>>

\* callers of generate() on either client, one call after the other
NextGenerate ==
    \/ \E client \in LLMClients : CallGenerate(client)
    \/ Attempt

SpecGenerate == InitIdle /\ [][NextGenerate]_vars

\* callers of the categorization service, one call after the other
NextCategorize ==
    \/ \E transactions \in TransactionLists, batch_size \in 1..MaxBatchSize :
            CategorizeBatchOptimized(transactions, batch_size)
    \/ ProcessBatch
    \/ FallbackOne
    \/ ReturnBatches
    \/ \E id \in TransactionIds : CategorizeFull(id)
    \/ \E id \in TransactionIds : CategorizeSingle(id)
    \/ \E transactions \in TransactionLists, batch_size \in 1..MaxBatchSize :
            CategorizeBatch(transactions, batch_size)
    \/ CategorizeBatchStep1
    \/ CategorizeBatchStep2

SpecCategorize == InitIdle /\ [][NextCategorize]_vars

\* a parser about to validate the category string of a response
InitValidate ==
    /\ InitSync
    /\ notion = <<>>
    /\ sqlite = <<>>
    /\ gen = NoGenerate
    /\ cat = NoCategorization
    /\ val \in {[NoValidation EXCEPT !.category = category] : category \in Strings}
    /\ entity = NoTransaction

NextValidate == CallValidateCategory

SpecValidate == InitValidate /\ [][NextValidate]_vars

\* one Transaction constructed, then changed through its methods
NextEntity ==
    \/ Construct
    \/ MarkAsReviewed
    \/ \E new_category \in Categories : UpdateCategory(new_category)
    \/ Anonymize
    \/ \E tag \in TagInputs : AddTag(tag)
    \/ \E tag \in TagInputs : RemoveTag(tag)
    \/ \E actual_amount \in Reimbursements,
          new_status \in ReimbursementStatus \cup {"null"} :
            UpdateReimbursement(actual_amount, new_status)
    \/ MarkAsPending
    \/ \E actual_reimbursement \in Reimbursements :
            MarkAsComplete(actual_reimbursement)

SpecEntity == InitIdle /\ [][NextEntity]_vars

----------------------------------------------------------------------------
(* Claims *)

Counters(res) ==
    <<res.created_in_target, res.updated_in_target, res.conflicts_resolved,
      res.skipped>>

\* the last two sync() calls returned, ran with the same options except
\* dry_run, and no repository failure was injected
TwoRuns(dry_first, dry_second) ==
    /\ pc = "idle"
    /\ prev.status = "returned"
    /\ last.status = "returned"
    /\ prev.options.dry_run = dry_first
    /\ last.options.dry_run = dry_second
    /\ [prev.options EXCEPT !.dry_run = dry_second] = last.options
    /\ faults = MaxFaults

\* C1: the second of two identical non-dry-run unidirectional syncs creates
\* and updates nothing.  The code breaks this under SOURCE_WINS: update stamps
\* the target with the time of the write, so the copy never equals its source.
C1_SecondRunWritesNothing ==
    (TwoRuns(FALSE, FALSE) /\ last.options.direction # BIDIRECTIONAL)
        => /\ last.result.created_in_target = 0
           /\ last.result.updated_in_target = 0

\* C2: while and after a dry-run sync runs, neither repository has been
\* written: no add, no update, and the contents are those of the start.
C2_DryRunWritesNothing ==
    (runs > 0 /\ options.dry_run)
        => /\ calls = NoCalls
           /\ notion = pre.notion
           /\ sqlite = pre.sqlite

\* a dry run returned counts that announce a creation and an update
C2_Witness ==
    /\ last.status = "returned"
    /\ last.options.dry_run
    /\ last.options.direction = BIDIRECTIONAL
    /\ last.result.created_in_target > 0
    /\ last.result.updated_in_target > 0
    /\ notion = pre.notion
    /\ sqlite = pre.sqlite

\* C3: a dry run returns the four counts of the real run that starts from the
\* same contents.  The code breaks this for a bidirectional sync: the second
\* pass of the real run reads what the first pass wrote, the dry run does not.
C3_DryRunCountsAsRealRun ==
    TwoRuns(TRUE, FALSE) => Counters(prev.result) = Counters(last.result)

\* the loop is about to process a source transaction whose id the target
\* holds with a different updated_at or description
Conflict ==
    /\ pc = "loop"
    /\ source_transactions # <<>>
    /\ Head(source_transactions).id \in DOMAIN target_map
    /\ NeedsUpdate(Head(source_transactions),
                   target_map[Head(source_transactions).id])

TargetRows == IF TargetOf(direction) = "notion" THEN notion ELSE sqlite

\* the step counts an update, and outside a dry run calls target.update once
\* and leaves the source's description in the target
StepUpdates ==
    /\ result' = [result EXCEPT !.total_processed = @ + 1,
                                !.updated_in_target = @ + 1,
                                !.conflicts_resolved = @ + 1]
    /\ IF options.dry_run
       THEN UNCHANGED <<notion, sqlite, calls>>
       ELSE /\ calls'[TargetOf(direction)] = calls[TargetOf(direction)] + 1
            /\ TargetRows'[Head(source_transactions).id].description =
                   Head(source_transactions).description

\* the step counts a skip and calls no repository
StepSkips ==
    /\ result' = [result EXCEPT !.total_processed = @ + 1, !.skipped = @ + 1]
    /\ UNCHANGED <<notion, sqlite, calls>>

\* C4: under NEWEST_WINS a conflicting target record is overwritten exactly
\* when the source's updated_at is strictly greater than the target's; when
\* the two are equal or the target is newer the transaction is skipped and the
\* target left alone, whatever the other fields hold.
C4_NewestWinsStrictlyNewer ==
    [][(Conflict /\ options.conflict_resolution = NEWEST_WINS /\ faults' = faults)
        => LET s == Head(source_transactions).updated_at
               t == target_map[Head(source_transactions).id].updated_at
           IN /\ (DtComparable(s, t) /\ s.t > t.t) => StepUpdates
              /\ (DtComparable(s, t) /\ s.t <= t.t) => StepSkips
              /\ StepUpdates => (DtComparable(s, t) /\ s.t > t.t)]_vars

\* a NEWEST_WINS sync returned after skipping a record whose description
\* differs and whose updated_at equals the source's
C4_Witness ==
    /\ last.status = "returned"
    /\ last.options.conflict_resolution = NEWEST_WINS
    /\ last.options.direction = NOTION_TO_SQLITE
    /\ ~last.options.dry_run
    /\ 1 \in DOMAIN pre.notion /\ 1 \in DOMAIN pre.sqlite
    /\ pre.sqlite[1].updated_at = DateTime(pre.notion[1].last_edited_time, TRUE)
    /\ pre.sqlite[1].description # pre.notion[1].description
    /\ last.result.skipped >= 1
    /\ sqlite[1] = pre.sqlite[1]

\* C5: under SOURCE_WINS a conflicting record is always updated (updated and
\* conflicts_resolved go up), whichever side is newer; under TARGET_WINS and
\* SKIP it is never updated and skipped goes up.
C5_FixedPolicies ==
    [][(Conflict /\ faults' = faults)
        => /\ options.conflict_resolution = SOURCE_WINS => StepUpdates
           /\ options.conflict_resolution \in {TARGET_WINS, SKIP} => StepSkips]_vars

\* a SOURCE_WINS sync overwrote a target record that was newer than its source
C5_Witness ==
    /\ last.status = "returned"
    /\ last.options.conflict_resolution = SOURCE_WINS
    /\ last.options.direction = NOTION_TO_SQLITE
    /\ ~last.options.dry_run
    /\ 1 \in DOMAIN pre.notion /\ 1 \in DOMAIN pre.sqlite
    /\ pre.sqlite[1].updated_at.t > pre.notion[1].last_edited_time
    /\ pre.sqlite[1].description # pre.notion[1].description
    /\ last.result.updated_in_target >= 1
    /\ last.result.conflicts_resolved >= 1
    /\ sqlite[1].description = pre.notion[1].description

\* a unidirectional non-dry-run sync returned, no repository call failed
ReturnedOneWay ==
    /\ pc = "idle"
    /\ last.status = "returned"
    /\ last.options.direction # BIDIRECTIONAL
    /\ ~last.options.dry_run
    /\ faults = MaxFaults

ReturnedBothWays ==
    /\ pc = "idle"
    /\ last.status = "returned"
    /\ last.options.direction = BIDIRECTIONAL
    /\ ~last.options.dry_run
    /\ ~IsIncremental(last.options)
    /\ last.result.errors = 0

Identical ==
    /\ DOMAIN notion = DOMAIN sqlite
    /\ \A id \in DOMAIN notion :
         NotionPageToTransaction(id, notion[id]) = RowToTransaction(id, sqlite[id])

\* C8: get_sync_status reports in_sync exactly when the counts are equal,
\* no id is on one side only and no shared id has differing records; for
\* identical repositories every difference is zero and in_sync is True, and
\* after one transaction is removed from one side of repositories reported in
\* sync, in_sync is False and the only_in count of the other side is 1.
C8_SyncStatus ==
    status.outcome = "returned"
        => LET r == status.report
           IN /\ removed = "none"
                   => /\ r.in_sync <=> Identical
                      /\ r.in_sync <=>
                           /\ Cardinality(DOMAIN notion) = Cardinality(DOMAIN sqlite)
                           /\ r.only_in_notion = 0
                           /\ r.only_in_sqlite = 0
                           /\ r.out_of_sync = 0
                      /\ r.out_of_sync =
                           Cardinality({id \in DOMAIN notion \cap DOMAIN sqlite :
                               NotionPageToTransaction(id, notion[id])
                                   # RowToTransaction(id, sqlite[id])})
                      /\ Identical
                           => /\ r.only_in_notion = 0
                              /\ r.only_in_sqlite = 0
                              /\ r.out_of_sync = 0
              /\ (status.prior.in_sync /\ status.removed = "notion")
                   => /\ ~r.in_sync
                      /\ r.only_in_sqlite = 1
                      /\ r.only_in_notion = 0
              /\ (status.prior.in_sync /\ status.removed = "sqlite")
                   => /\ ~r.in_sync
                      /\ r.only_in_notion = 1
                      /\ r.only_in_sqlite = 0

\* repositories reported in sync lost one of their two transactions on the
\* SQLite side, and the next report says so
C8_Witness ==
    /\ status.outcome = "returned"
    /\ status.prior.in_sync
    /\ status.prior.notion_count = 2
    /\ status.removed = "sqlite"
    /\ removed = "none"
    /\ ~status.report.in_sync
    /\ status.report.only_in_notion = 1

\* target.list() of the running pass as the repository stood when sync began
PreTargetMap ==
    LET rows == pre[TargetOf(direction)]
    IN [id \in DOMAIN rows |->
          IF TargetOf(direction) = "notion"
          THEN NotionPageToTransaction(id, rows[id])
          ELSE RowToTransaction(id, rows[id])]

\* C9: when add or update raises for one transaction the sync goes on: errors
\* goes up by one, no other counter moves for that transaction, nothing is
\* written for it, and every later transaction of the listing is processed
\* with the decision the contents at the start of the sync give it.
C9_PerTransactionFailure ==
    /\ [][(pc = "loop" /\ faults' = faults - 1)
          => /\ result' = [result EXCEPT !.total_processed = @ + 1,
                                         !.errors = @ + 1]
             /\ pc' = "loop"
             /\ source_transactions' = Tail(source_transactions)
             /\ UNCHANGED <<notion, sqlite, target_map>>]_vars
    /\ [][(pc = "loop" /\ source_transactions # <<>> /\ faults < MaxFaults)
          => /\ event'.id = Head(source_transactions).id
             /\ event'.decision = Decision(Head(source_transactions), PreTargetMap,
                                           options.conflict_resolution)
             /\ faults' = faults => event'.outcome # "error"
                                      \/ event'.decision = "error"]_vars
    /\ []((pc = "idle" /\ last.status = "returned"
             /\ last.options.direction # BIDIRECTIONAL
             /\ ~IsIncremental(last.options))
          => last.result.total_processed
                 = Cardinality(DOMAIN pre[SourceOf(direction)]))

\* add raised for the first of two transactions and the second was created
C9_Witness ==
    /\ pc = "idle"
    /\ last.status = "returned"
    /\ last.options.direction = NOTION_TO_SQLITE
    /\ ~last.options.dry_run
    /\ faults < MaxFaults
    /\ DOMAIN pre.notion = TxnIds
    /\ DOMAIN pre.sqlite = {}
    /\ DOMAIN sqlite = {2}
    /\ last.result.errors = 1
    /\ last.result.created_in_target = 1
    /\ last.result.total_processed = 2

\* C10: when source.list() or target.list() fails, sync raises
\* RepositoryError and returns no SyncResult, and the pass whose listing
\* failed has called neither add nor update on its target.
C10_ListFailureRaises ==
    /\ [][(pc = "list" /\ faults' = faults - 1)
          => /\ pc' = "idle"
             /\ last'.status = "raised"
             /\ UNCHANGED <<notion, sqlite, calls>>]_vars
    /\ []((pc = "idle" /\ last.status = "raised"
             /\ event.decision \in {"source.list", "target.list"})
          => /\ calls[TargetOf(direction)] = 0
             /\ TargetRows = pre[TargetOf(direction)]
             /\ last.options.direction # BIDIRECTIONAL
                  => /\ calls = NoCalls
                     /\ notion = pre.notion
                     /\ sqlite = pre.sqlite)

\* the second pass of a bidirectional sync failed to list after the first
\* pass had written to SQLite
C10_Witness ==
    /\ pc = "idle"
    /\ last.status = "raised"
    /\ last.options.direction = BIDIRECTIONAL
    /\ direction = SQLITE_TO_NOTION
    /\ event.decision = "target.list"
    /\ calls.sqlite > 0
    /\ calls.notion = 0
    /\ notion = pre.notion
    /\ sqlite # pre.sqlite

\* C14: one call of generate makes at most 5 attempts; a further attempt
\* follows only an attempt that ended in RateLimitError or TransientError;
\* after a PermanentError no attempt follows and the caller gets the
\* PermanentError.
C14_RetryOnlyRetryable ==
    /\ [](gen.attempts <= 5)
    /\ [][(gen.state = "calling" /\ gen.attempts > 0 /\ gen'.attempts > gen.attempts)
          => gen.errors[Len(gen.errors)] \in {"RateLimitError", "TransientError"}]_vars
    /\ []((gen.errors # <<>> /\ gen.errors[Len(gen.errors)] = "PermanentError")
          => gen.state = "raised" /\ gen.raised = "PermanentError")
    /\ [][gen.state = "raised" => gen'.attempts <= gen.attempts]_vars

\* a call was retried twice and then ended by a PermanentError
C14_Witness ==
    /\ gen.state = "raised"
    /\ gen.raised = "PermanentError"
    /\ gen.attempts = 3
    /\ gen.errors[1] = "RateLimitError"
    /\ gen.errors[2] = "TransientError"

\* C11: categorize_batch_optimized ends by returning a mapping that holds a
\* result for every input id, whatever the LLM does.  The code breaks this
\* when generate raises anything but OllamaError: the error leaves the call.
C11_EveryIdHasResult ==
    (cat.op = "categorize_batch_optimized" /\ cat.state \in {"returned", "raised"})
        => /\ cat.state = "returned"
           /\ \A k \in DOMAIN cat.transactions :
                cat.transactions[k] \in DOMAIN cat.all_results

\* C12: no call of the categorization service raises to its caller.  The
\* code breaks this for RateLimitError, TransientError, PermanentError and
\* RetryError, which except OllamaError does not catch.
C12_ServiceNeverRaises ==
    cat.state # "raised"

\* C13: _validate_category returns the input when it is a taxonomy category;
\* otherwise the taxonomy category equal to it ignoring case; otherwise a
\* taxonomy category that contains it or is contained in it ignoring case;
\* otherwise "Miscellaneous"; the value returned is always a taxonomy category
\* or "Miscellaneous".
C13_ValidateCategoryTiers ==
    val.state = "returned" =>
        LET exact == val.category \in valid_categories
            nocase == \E v \in valid_categories : Lower(v) = Lower(val.category)
            partial == \E v \in valid_categories : PartialMatch(val.category, v)
        IN /\ exact => val.result = val.category
           /\ (~exact /\ nocase)
                => /\ val.result \in valid_categories
                   /\ Lower(val.result) = Lower(val.category)
           /\ (~exact /\ ~nocase /\ partial)
                => /\ val.result \in valid_categories
                   /\ PartialMatch(val.category, val.result)
           /\ (~exact /\ ~nocase /\ ~partial) => val.result = Miscellaneous
           /\ val.result \in valid_categories \cup {Miscellaneous}

\* "om" is no taxonomy category, equals "OM" ignoring case and contains "M"
C13_Witness ==
    /\ val.state = "returned"
    /\ val.category = <<"o", "m">>
    /\ val.result = <<"O", "M">>

C16_WritesStop ==
    (runs >= 3 /\ faults = MaxFaults)
        => /\ calls = NoCalls
           /\ result.created_in_target = 0 /\ result.updated_in_target = 0
           /\ result_n2s.created_in_target = 0 /\ result_n2s.updated_in_target = 0
           /\ (pc = "idle" =>
                 /\ last.calls = NoCalls
                 /\ last.result.created_in_target = 0
                 /\ last.result.updated_in_target = 0)

\* the second run still wrote to SQLite, the third one wrote nothing
C16_Witness ==
    /\ runs = 3
    /\ faults = MaxFaults
    /\ pc = "idle"
    /\ last.status = "returned"
    /\ prev.status = "returned"
    /\ prev.calls.sqlite > 0
    /\ last.calls = NoCalls

\* C17: get_sync_status, called after a non-dry-run bidirectional NEWEST_WINS
\* sync (of all transactions, mode full) returned with errors = 0, reports
\* in_sync = True.  The code breaks
\* this: a transaction the sync created in Notion carries Notion's own
\* last_edited_time, which differs from the updated_at SQLite holds.
C17_InSyncAfterSync ==
    [][(/\ GetSyncStatus
        /\ runs >= 1
        /\ last.status = "returned"
        /\ last.options.mode = FULL
        /\ last.result.errors = 0
        /\ status'.outcome = "returned")
          => status'.report.in_sync]_vars

\* C19: after a non-dry-run bidirectional NEWEST_WINS sync (of all
\* transactions, mode full) that returned with errors = 0, every id held by both repositories has the same data on both
\* sides.  The code breaks this for equal updated_at values: neither side is
\* strictly newer, so both passes skip the transaction.
C19_SameDataAfterSync ==
    (runs >= 1 /\ pc = "idle" /\ last.status = "returned"
       /\ last.options.mode = FULL /\ last.result.errors = 0)
        => \A id \in DOMAIN notion \cap DOMAIN sqlite :
              notion[id].description = sqlite[id].description

\* a non-dry-run bidirectional sync of all transactions has returned and no
\* repository call was made to fail
BothWaysDone ==
    /\ runs = 1
    /\ pc = "idle"
    /\ last.status = "returned"
    /\ last.options.direction = BIDIRECTIONAL
    /\ last.options.mode = FULL
    /\ ~last.options.dry_run
    /\ faults = MaxFaults

\* ids held by both repositories before the sync with different data
ChangedOnBothSides ==
    {id \in DOMAIN pre.notion \cap DOMAIN pre.sqlite :
        pre.notion[id].description # pre.sqlite[id].description}

PreNotion(id) == NotionPageToTransaction(id, pre.notion[id])
PreSQLite(id) == RowToTransaction(id, pre.sqlite[id])

\* the conflict decision of a pass favours its source
Favours(source_txn, target_txn, strategy) ==
    /\ ~ResolveConflictRaises(source_txn, target_txn, strategy)
    /\ ResolveConflict(source_txn, target_txn, strategy)

OnBothSides(id, description) ==
    /\ notion[id].description = description
    /\ sqlite[id].description = description

OutcomeCounters == {"created_in_target", "updated_in_target", "skipped", "errors"}

CountersConsistent(res) ==
    /\ res.conflicts_resolved = res.updated_in_target
    /\ res.created_in_target + res.updated_in_target + res.skipped + res.errors
           <= res.total_processed

C21_InSyncThenNoWrites ==
    (status.outcome = "returned" /\ status.report.in_sync /\ runs = 1)
        => /\ calls = NoCalls
           /\ notion = pre.notion /\ sqlite = pre.sqlite
           /\ \A res \in {result, result_n2s} :
                /\ res.created_in_target = 0
                /\ res.updated_in_target = 0
                /\ res.skipped = 0
           /\ (pc = "idle" /\ last.status = "returned")
                => /\ last.calls = NoCalls
                   /\ last.result.created_in_target = 0
                   /\ last.result.updated_in_target = 0
                   /\ last.result.skipped = 0

\* in sync with two transactions on each side, then a SOURCE_WINS sync both
\* ways that processed all four and returned
C21_Witness ==
    /\ status.outcome = "returned"
    /\ status.report.in_sync
    /\ status.report.notion_count = 2
    /\ runs = 1
    /\ pc = "idle"
    /\ last.status = "returned"
    /\ last.options.conflict_resolution = SOURCE_WINS
    /\ ~last.options.dry_run
    /\ last.result.total_processed = 4

\* C22: when the batch generate call fails or the batch response holds no
\* JSON array, every transaction of that batch is given to the LLM on its own
\* before it can get the synthetic fallback.  The code breaks this for the
\* unparsable response: parse_optimized_batch_response itself answers with
\* the fallback for every id and no individual call is made.
C22_FailedBatchRetriedIndividually ==
    (cat.op = "categorize_batch_optimized" /\ cat.state = "returned")
        => cat.failed \subseteq cat.individual

\* C23: parse_optimized_batch_response validates each array element on its
\* own: no or an unparsable confidence gives 0.5, a number is clamped into
\* [0,1], and every element keeps its own parsed category and subcategory.
\* The code breaks this for an unparsable confidence: float() raises inside
\* the loop and every id of the batch gets the fallback.
C23_ElementsValidatedAlone ==
    (cat.op = "categorize_batch_optimized" /\ cat.state \in {"batch", "returned"}
       /\ cat.response.kind = "array")
        => \A id \in DOMAIN cat.response.items :
              LET input == cat.response.items[id]
              IN /\ cat.all_results[id].category = ParsedResult.category
                 /\ cat.all_results[id].subcategory = ParsedResult.subcategory
                 /\ cat.all_results[id].confidence =
                        IF input.kind = "number"
                        THEN (IF input.value < 0 THEN 0
                              ELSE IF input.value > 100 THEN 100 ELSE input.value)
                        ELSE 50

\* C24: when the attempts of generate are used up, the caller gets the
\* classified error of the last attempt (a RateLimitError with its
\* retry_after, or a TransientError).  The code breaks this: the retry
\* decorator is built without reraise, so the caller gets its RetryError.
C24_LastErrorReachesCaller ==
    gen.state = "raised" => gen.raised = gen.errors[Len(gen.errors)]

\* C25: after an attempt that ended in a RateLimitError carrying
\* retry_after = r, the next attempt starts no sooner than r seconds later.
\* The code breaks this: the wait is exponential in the attempt number only.
C25_RetryAfterRespected ==
    (gen.attempts > 1 /\ gen.errors[Len(gen.errors) - 1] = "RateLimitError")
        => gen.slept >= gen.hint

\* C26: update_reimbursement(actual_amount, status = S) gives a transaction
\* whose reimbursement_status is S; mark_as_complete leaves it complete and
\* mark_as_pending leaves it pending for every accepted amount.  The code
\* breaks this: the constructor recomputes the status from the amounts.
C26_GivenStatusKept ==
    (/\ entity.state = "made"
     /\ entity.op \in {"update_reimbursement", "mark_as_complete", "mark_as_pending"}
     /\ entity.error = "none"
     /\ entity.given # "null")
        => entity.reimbursement_status = entity.given

\* the two records hold the same data and the same tags, in any order
SameApartFromTagOrder(source, target) ==
    /\ source.id = target.id
    /\ ~DtNotEqual(source.updated_at, target.updated_at)
    /\ source.description = target.description
    /\ Len(source.tags) = Len(target.tags)
    /\ {source.tags[i] : i \in DOMAIN source.tags} =
       {target.tags[i] : i \in DOMAIN target.tags}

\* C27: two records with the same id whose tags hold the same strings in a
\* different order count as equal: get_sync_status does not count them in
\* out_of_sync, and a sync iteration on them is neither an update nor a
\* skip.  The code breaks this: _needs_update compares the tag lists.
C27_TagOrderIgnored ==
    /\ (status.outcome = "returned" /\ runs = 0)
          => status.report.out_of_sync <=
                Cardinality({id \in DOMAIN notion \cap DOMAIN sqlite :
                    ~SameApartFromTagOrder(
                        NotionPageToTransaction(id, notion[id]),
                        RowToTransaction(id, sqlite[id]))})
    /\ \A id \in DOMAIN pre.notion \cap DOMAIN pre.sqlite :
          (/\ runs = 1
           /\ event.id = id
           /\ direction = options.direction
           /\ SameApartFromTagOrder(
                  NotionPageToTransaction(id, pre.notion[id]),
                  RowToTransaction(id, pre.sqlite[id])))
              => event.decision \notin {"update", "skip"}

\* the transactions of the source repository, as the sync found them,
\* that were written at or after the instant since
ChangedSince(since) ==
    IF last.options.direction = NOTION_TO_SQLITE
    THEN {id \in DOMAIN pre.notion : pre.notion[id].last_edited_time >= since}
    ELSE {id \in DOMAIN pre.sqlite : pre.sqlite[id].updated_at.t >= since}

\* C28: an incremental sync processes only the source transactions written
\* since the last sync, also when it is started through
\* SyncTransactionsUseCase.execute(mode = "incremental"): the second of two
\* executes (the first ran at StartTime) counts no older transaction in
\* total_processed.  The code breaks this: the use case never sets
\* last_sync_time, and without it the filter is not applied.
C28_IncrementalOnlySince ==
    (/\ runs = 2
     /\ pc = "idle"
     /\ prev.status = "returned"
     /\ last.status = "returned"
     /\ last.options.mode = INCREMENTAL
     /\ last.options.direction # BIDIRECTIONAL)
        => last.result.total_processed <= Cardinality(ChangedSince(StartTime))

\* C29: categorize_batch returns exactly one result per input transaction,
\* in input order, whatever number of elements the LLM's batch response
\* holds.  The code breaks this: the results of a batch are the parsed
\* elements, as many as the response holds, and zip() pairs them with the
\* transactions by position.
C29_OneResultPerTransaction ==
    (cat.op = "categorize_batch" /\ cat.state = "returned")
        => /\ Len(cat.results) = Len(cat.transactions)
           /\ \A k \in DOMAIN cat.results :
                cat.results[k].answers \in {cat.transactions[k], "any"}

\* C30: the sync takes no lock and checks no version between target.list()
\* and target.update(): when another writer updates a target record after
\* the listing and before the sync handles the same id, the sync still
\* decides from the record it listed, and its update replaces the writer's
\* record with the source's data, under NEWEST_WINS as well.
C30_SyncOverwritesConcurrentWrite ==
    [][(/\ pc = "loop"
        /\ source_transactions # <<>>
        /\ source_transactions' = Tail(source_transactions)
        /\ other_write.id = Head(source_transactions).id
        /\ other_write.repo = TargetOf(direction)
        /\ NeedsUpdate(Head(source_transactions),
                       target_map[Head(source_transactions).id])
        /\ ~ResolveConflictRaises(Head(source_transactions),
                                  target_map[Head(source_transactions).id],
                                  options.conflict_resolution)
        /\ ResolveConflict(Head(source_transactions),
                           target_map[Head(source_transactions).id],
                           options.conflict_resolution))
          => /\ event'.decision = "update"
             /\ (event'.outcome = "updated" /\ ~options.dry_run)
                   => TargetRows'[other_write.id].description =
                          Head(source_transactions).description]_vars

\* a NEWEST_WINS sync has updated a target record that another writer had
\* written after the listing, at an instant later than the source's
\* updated_at: the writer's description is gone
C30_Witness ==
    /\ pc = "loop"
    /\ source_transactions = <<>>
    /\ options.direction # BIDIRECTIONAL
    /\ options.conflict_resolution = NEWEST_WINS
    /\ ~options.dry_run
    /\ other_write # NoWrite
    /\ other_write.repo = TargetOf(direction)
    /\ event.id = other_write.id
    /\ event.outcome = "updated"
    /\ other_write.t >
          (IF direction = NOTION_TO_SQLITE
           THEN notion[other_write.id].last_edited_time
           ELSE sqlite[other_write.id].updated_at.t)
    /\ TargetRows[other_write.id].description # other_write.description

====
